---- MODULE Spec2Model ----
(***************************************************************************)
(* Model of the document generation pipeline of documents_agentic:         *)
(*   src/src/llm.py       deepseek_complete (retry / backoff / raise)      *)
(*   src/src/workflow.py  classify -> retrieve -> generate -> validate     *)
(*   src/src/config.py    the retry constants                              *)
(*   src/src/rag.py       get_rag / close_rag (the retrieval handle)       *)
(*   src/src/categories.py  the category table                             *)
(* Real numbers are scaled: delays are in units of LLM_RETRY_DELAY (1.0 s) *)
(* and confidences are in tenths (0.8 is 8).                               *)
(***************************************************************************)
EXTENDS Integers, Sequences, FiniteSets, TLC

\* ------------------------------------------------------------------ bounds
\* Largest max_retries argument a direct caller of deepseek_complete passes.
MaxRetriesArg == 4
\* Largest number of bracketed upper-case tokens in a validated draft.
MaxPlaceholders == 6
\* Number of coroutines that call get_rag and close_rag side by side.
MaxTasks == 2
\* Largest number of retrieval handles built in one behaviour.
MaxHandles == 2
\* Largest number of tokens in a request checked for its location.
MaxRequestLen == 4

\* --------------------------------------------------------------- constants
LLM_MAX_RETRIES == 3
LLM_RETRY_DELAY == 1
\* workflow.py:135  the length below which the fall-back example is added
ContextThreshold == 200
\* workflow.py:251  the characters of the reference example kept
ExampleLimit == 1500

\* Python's None where the other values are strings; an optional value of
\* another type is a sequence: <<>> for None, <<v>> for v.
None == "None"

\* ------------------------------------------------------------------- state
VARIABLES
    \* deepseek_complete (llm.py), one call in progress at a time
    llm_status,     \* "idle" | "running" | "returned" | "raised"
    llm_purpose,    \* who called: "direct" | "classify" | "generate"
    retries,        \* local `retries`
    attempt,        \* loop variable `attempt` (next attempt to run)
    last_error,     \* local `last_error`: <<>> for None, <<e>> for exception e
    caught,         \* what the latest attempt raised: <<>> if nothing yet
    llm_result,     \* <<>> until the call returns, then <<text>>
    llm_raised,     \* the exception class raised (None until raised)
    last_sleep,     \* <<>> or <<the delay of the latest asyncio.sleep>>
    n_sleeps,       \* how many times asyncio.sleep was called
    n_calls,        \* how many times the completion service was invoked
    only_rate,      \* every attempt so far failed and was classified rate-limited
    \* generate_document (workflow.py): the graph position and DocumentState
    pc,             \* "classify" | "classify_llm" | "retrieve" | "generate" |
                    \* "generate_llm" | "validate" | "end" | "done" |
                    \* "aborted" | "direct" | "rag"
    user_request,
    category,
    auto_category,
    classification_confidence,
    rag_examples,
    entities,
    draft,
    validation_errors,
    retry_count,
    is_valid,
    final_document,
    returned,       \* <<>> until generate_document returns, then <<document>>
    error,          \* the exception that left generate_document (None if none)
    \* bookkeeping of the run, read by the properties only
    arg_category,   \* the category argument of the call
    gen_count,      \* Generate invocations started
    val_count,      \* Validate invocations
    fail_count,     \* Validate invocations that failed
    pass_count,     \* Validate invocations that passed
    last_generated, \* <<>> or <<the text the latest Generate produced>>
    prev,           \* <<>> or <<what the previous call was given and returned>>
    \* generate_draft (workflow.py): the prompt in hand while the client runs
    prompt,         \* <<>> or <<the parts of the prompt that vary>>
    \* classify_category (workflow.py:72): the response it has just parsed
    classify_response, \* <<>> or <<the response>>, until the next stage runs
    \* the retrieval handle (rag.py)
    rag_instance,   \* _rag_instance: 0 for None, else the number of a handle
    handles,        \* the LightRAG objects built so far, by number
    tasks,          \* the coroutines that call get_rag and close_rag
    rag_book        \* bookkeeping of the handle, read by the properties only

llm_vars == <<llm_status, llm_purpose, retries, attempt, last_error, caught,
              llm_result, llm_raised, last_sleep, n_sleeps, n_calls, only_rate>>

state_vars == <<user_request, category, auto_category, classification_confidence,
                rag_examples, entities, draft, validation_errors, retry_count,
                is_valid, final_document>>

book_vars == <<arg_category, gen_count, val_count, fail_count, pass_count,
               last_generated, prev>>

rag_vars == <<rag_instance, handles, tasks, rag_book>>

aux_vars == <<prompt, classify_response, rag_instance, handles, tasks,
              rag_book>>

wf_vars == <<pc, user_request, category, auto_category, classification_confidence,
             rag_examples, entities, draft, validation_errors, retry_count,
             is_valid, final_document, returned, error,
             arg_category, gen_count, val_count, fail_count, pass_count,
             last_generated, prev, prompt, classify_response, rag_instance, handles,
             tasks, rag_book>>

vars == <<llm_status, llm_purpose, retries, attempt, last_error, caught,
          llm_result, llm_raised, last_sleep, n_sleeps, n_calls, only_rate,
          pc, user_request, category, auto_category, classification_confidence,
          rag_examples, entities, draft, validation_errors, retry_count,
          is_valid, final_document, returned, error,
          arg_category, gen_count, val_count, fail_count, pass_count,
          last_generated, prev, prompt, classify_response, rag_instance, handles,
          tasks, rag_book>>

\* ------------------------------------------------- exceptions of an attempt
\* What one attempt can raise.  timeout: the exception is asyncio.TimeoutError
\* (wait_for expired).  Otherwise the lower-cased message is described by
\* which of the substrings the code looks for it contains: "rate", "limit",
\* and any of the transient tokens ("connection", "network", "timeout",
\* "502", "503", "504").
TimeoutException == [timeout |-> TRUE, rate |-> FALSE, limit |-> FALSE, trans |-> FALSE]

Exceptions ==
    {TimeoutException} \cup
    [timeout : {FALSE}, rate : BOOLEAN, limit : BOOLEAN, trans : BOOLEAN]

\* llm.py:111  except asyncio.TimeoutError
IsTimeout(e) == e.timeout

\* llm.py:123  "rate" in error_str and "limit" in error_str
IsRateLimited(e) == ~e.timeout /\ e.rate /\ e.limit

\* llm.py:133  any(x in error_str for x in [...]), reached only when the
\* rate-limit branch above did not `continue`
IsTransient(e) == ~e.timeout /\ ~(e.rate /\ e.limit) /\ e.trans

IsRetryable(e) == IsTimeout(e) \/ IsRateLimited(e) \/ IsTransient(e)

RECURSIVE Pow2(_)
Pow2(n) == IF n = 0 THEN 1 ELSE 2 * Pow2(n - 1)

\* BackoffDelay with the transient test made before the rate-limit test: an
\* error matching both signatures gets the plain delay
BackoffDelay_TransientFirst(e, a) ==
    IF IsRateLimited(e) /\ ~e.trans THEN LLM_RETRY_DELAY * Pow2(a) * 2
    ELSE LLM_RETRY_DELAY * Pow2(a)

\* llm.py:115, 127, 137  the delay slept after a retryable failure
BackoffDelay(e, a) ==
    IF IsRateLimited(e) THEN LLM_RETRY_DELAY * Pow2(a) * 2
    ELSE LLM_RETRY_DELAY * Pow2(a)

\* MoreAttempts with the loop running over range(retries + 2)
MoreAttempts_OneMore(a, r) == a < r + 2

\* llm.py:90  for attempt in range(retries + 1): another iteration follows
MoreAttempts(a, r) == a < r + 1

\* llm.py:114, 126, 136  if attempt < retries: sleep before the next attempt
SleepsAfter(a, r) == a < r

\* ExhaustedError without the rate-limit branch
ExhaustedError_NoRateLimit(err) ==
    IF err # <<>> /\ err[1].timeout THEN "LLMTimeoutError"
    ELSE "LLMError"

\* llm.py:146-152  the class raised when the loop ran out
ExhaustedError(err) ==
    IF err # <<>> /\ err[1].timeout THEN "LLMTimeoutError"
    ELSE IF err # <<>> /\ err[1].rate THEN "LLMRateLimitError"
    ELSE "LLMError"

\* ----------------------------------------------------------- categories
\* The category names (categories.py:42, 69, 89), romanised:
\* nangsue phainai, nangsue phainok, raingan kan prachum.
INTERNAL == "nangsue_phainai"
EXTERNAL == "nangsue_phainok"
MEETING == "raingan_kan_prachum"

\* categories.py:41-111  CATEGORIES.keys(), in the order of the table
CATEGORIES == <<INTERNAL, EXTERNAL, MEETING>>

CategoryNames == {CATEGORIES[i] : i \in 1..Len(CATEGORIES)}

\* categories.py:51-59, 78-82, 98-103  required_sections of each category.
\* Section markers, romanised: banthuek khokhwam, suan ratchakan, thi, wanthi,
\* rueang, rian, rueang doem; kho sadaeng khwam napthue; raingan kan prachum,
\* phu khao prachum, rabiap wara, mati thi prachum.
RequiredSectionsOf(cat) ==
    IF cat = INTERNAL THEN
        <<"banthuek_khokhwam", "suan_ratchakan", "thi", "wanthi", "rueang",
          "rian", "rueang_doem">>
    ELSE IF cat = EXTERNAL THEN
        <<"rueang", "rian", "kho_sadaeng_khwam_napthue">>
    ELSE
        <<"raingan_kan_prachum", "phu_khao_prachum", "rabiap_wara",
          "mati_thi_prachum">>

\* categories.py:135-138  get_required_sections: an unknown category falls
\* back to the internal memo
get_required_sections(cat) ==
    IF cat \in CategoryNames THEN RequiredSectionsOf(cat)
    ELSE RequiredSectionsOf(INTERNAL)

\* ----------------------------------------------------------------- texts
\* A draft is described by what validate_document reads of it:
\*   ph     the names re.findall(r'\[([A-Z_]+)\]') yields, in order
\*   words  the marker phrases written in it
\*   docs   the document numbers (spaces removed) that occur in the draft
\*          with its spaces removed
\*   locs   the location strings that occur in it
\*   len    len(draft)
EmptyText == [ph |-> <<>>, words |-> {}, docs |-> {}, locs |-> {}, len |-> 0]

\* The marker phrases that occur inside a written phrase (Thai spelling):
\* thi is part of wanthi and of mati thi prachum; rueang is part of
\* rueang doem and of rueang phuea phicharana.
PhrasesIn(w) ==
    {w} \cup
    (IF w \in {"wanthi", "mati_thi_prachum"} THEN {"thi"} ELSE {}) \cup
    (IF w \in {"rueang_doem", "rueang_phuea_phicharana"} THEN {"rueang"} ELSE {})

\* workflow.py:321, 326, 327  `marker in draft`
InText(marker, text) == \E w \in text.words : marker \in PhrasesIn(w)

\* ------------------------------------------------------------- requests
\* A request is a sequence of tokens.  Thai-script tokens ([ko kai - 9]):
\* the markers changwat and phuenthi, the boundary words, sothocho and words.
SpaceTokens == {"SP", "TAB"}
BoundaryTokens == {"truat", "phuea", "rawang", "wanthi", "nai", "lae"}
DigitTokens == {"123", "45"}
ThaiTokens ==
    {"changwat", "phuenthi", "sothocho", "chiangmai", "phuket", "kho", "khong",
     "kho_anumat", "kho_phicharana", "raingan_phon", "phon_kan_truatsop",
     "phon_kan_damnoenkan"}
        \cup BoundaryTokens

RECURSIVE SkipSpaces(_, _)
\* \s* : the first position from i on that holds no whitespace
SkipSpaces(req, i) ==
    IF i <= Len(req) /\ req[i] \in SpaceTokens THEN SkipSpaces(req, i + 1) ELSE i

RECURSIVE LazyEnd_Greedy(_, _)
\* LazyEnd for a pattern without the boundary words: the group runs on to
\* whitespace or the end
LazyEnd_Greedy(req, k) ==
    IF k = Len(req) THEN k
    ELSE IF req[k + 1] \in SpaceTokens THEN k
    ELSE IF req[k + 1] \in ThaiTokens THEN LazyEnd_Greedy(req, k + 1)
    ELSE 0

RECURSIVE LazyEnd(_, _)
\* ([ko kai - 9]+?)(?:truat|phuea|rawang|wanthi|nai|lae|$|\s) : with the
\* group ending at k, the shortest extension after which a boundary, the end
\* or whitespace follows; 0 when another character comes first
LazyEnd(req, k) ==
    IF k = Len(req) THEN k
    ELSE IF req[k + 1] \in BoundaryTokens \cup SpaceTokens THEN k
    ELSE IF req[k + 1] \in ThaiTokens THEN LazyEnd(req, k + 1)
    ELSE 0

\* The group the location pattern captures when its marker matches at i,
\* <<>> when the pattern does not match there
LocationAt(req, i, marker) ==
    IF req[i] # marker THEN <<>>
    ELSE LET j == SkipSpaces(req, i + 1)
         IN  IF j > Len(req) \/ req[j] \notin ThaiTokens THEN <<>>
             ELSE LET k == LazyEnd(req, j)
                  IN  IF k = 0 THEN <<>> ELSE SubSeq(req, j, k)

RECURSIVE LocationFrom(_, _, _)
\* re.search: the match at the leftmost position that has one
LocationFrom(req, i, marker) ==
    IF i > Len(req) THEN <<>>
    ELSE IF LocationAt(req, i, marker) # <<>> THEN LocationAt(req, i, marker)
    ELSE LocationFrom(req, i + 1, marker)

\* (sothocho\s*\d+[./]?\d*) matched at i: the group, <<>> when no match
DocNumberAt(req, i) ==
    IF req[i] # "sothocho" THEN <<>>
    ELSE LET j == SkipSpaces(req, i + 1)
         IN  IF j > Len(req) \/ req[j] \notin DigitTokens THEN <<>>
             ELSE LET s == IF j + 1 <= Len(req) /\ req[j + 1] \in {".", "/"}
                           THEN j + 1 ELSE j
                      e == IF s + 1 <= Len(req) /\ req[s + 1] \in DigitTokens
                           THEN s + 1 ELSE s
                  IN  SubSeq(req, i, e)

RECURSIVE DocNumberFrom(_, _)
DocNumberFrom(req, i) ==
    IF i > Len(req) THEN <<>>
    ELSE IF DocNumberAt(req, i) # <<>> THEN DocNumberAt(req, i)
    ELSE DocNumberFrom(req, i + 1)

\* workflow.py:153-197  extract_user_data, the fields the validator reads
\* (<<>> is None)
extract_user_data(req) ==
    [location |-> IF LocationFrom(req, 1, "changwat") # <<>>
                  THEN LocationFrom(req, 1, "changwat")
                  ELSE LocationFrom(req, 1, "phuenthi"),
     doc_number |-> DocNumberFrom(req, 1)]

\* workflow.py:335  .replace(" ", "")
RemoveSpaces(toks) == SelectSeq(toks, LAMBDA t : t # "SP")

\* ------------------------------------------------------------ validation
Take(seq, n) == IF Len(seq) <= n THEN seq ELSE SubSeq(seq, 1, n)

Err(kind, what) == [kind |-> kind, what |-> what]

RECURSIVE MissingSections_FirstOnly(_, _, _)
\* MissingSections leaving the loop at the first section that is missing
MissingSections_FirstOnly(sections, i, text) ==
    IF i > Len(sections) THEN <<>>
    ELSE IF InText(sections[i], text)
    THEN MissingSections_FirstOnly(sections, i + 1, text)
    ELSE <<Err("Missing required section", <<sections[i]>>)>>

RECURSIVE MissingSections(_, _, _)
\* workflow.py:320-322  one error for each required section not in the draft
MissingSections(sections, i, text) ==
    IF i > Len(sections) THEN <<>>
    ELSE (IF InText(sections[i], text) THEN <<>>
          ELSE <<Err("Missing required section", <<sections[i]>>)>>)
         \o MissingSections(sections, i + 1, text)

\* PlaceholderErrors reporting the first 4 names only
PlaceholderErrors_FirstFour(text) ==
    IF text.ph # <<>>
    THEN <<Err("Unreplaced placeholders", Take(text.ph, 4))>>
    ELSE <<>>

\* workflow.py:311-314  the placeholder check: the first 5 names are reported
PlaceholderErrors(text) ==
    IF text.ph # <<>>
    THEN <<Err("Unreplaced placeholders", Take(text.ph, 5))>>
    ELSE <<>>

\* UserDataErrors without the check of the document number
UserDataErrors_LocationOnly(text, user_data) ==
    IF user_data.location # <<>> /\ user_data.location \notin text.locs
    THEN <<Err("User location not used", user_data.location)>>
    ELSE <<>>

\* workflow.py:334-341  the checks that the user's data is used
UserDataErrors(text, user_data) ==
    (IF user_data.doc_number # <<>>
        /\ RemoveSpaces(user_data.doc_number) \notin text.docs
     THEN <<Err("User doc number not used", user_data.doc_number)>>
     ELSE <<>>)
    \o (IF user_data.location # <<>> /\ user_data.location \notin text.locs
        THEN <<Err("User location not used", user_data.location)>>
        ELSE <<>>)

\* workflow.py:306-345  the error list validate_document builds
ValidationErrors(text, cat, req) ==
    PlaceholderErrors(text)
    \o MissingSections(get_required_sections(cat), 1, text)
    \o (IF cat = INTERNAL
           /\ ~InText("rueang_phuea_phicharana", text)
           /\ ~InText("kho_thetching", text)
        THEN <<Err("Missing content section", <<>>)>> ELSE <<>>)
    \o UserDataErrors(text, extract_user_data(req))
    \o (IF text.len < 200 THEN <<Err("Document too short", <<>>)>> ELSE <<>>)

\* ------------------------------------------------ inputs of the model
\* The requests a run is started with.
Requests ==
    { <<"kho">>,
      <<"kho", "changwat", "chiangmai", "truat">>,
      <<"sothocho", "SP", "123", "SP", "kho">>,
      <<"sothocho", "SP", "123", "SP", "changwat", "chiangmai">> }

FullInternal ==
    {"banthuek_khokhwam", "suan_ratchakan", "wanthi", "rian", "rueang_doem",
     "rueang_phuea_phicharana"}

FullExternal == {"rueang", "rian", "kho_sadaeng_khwam_napthue"}

\* The drafts the completion service answers a Generate prompt with.
WorkflowDrafts ==
    { \* a complete internal memo that uses the user's data
      [ph |-> <<>>, words |-> FullInternal, docs |-> {<<"sothocho", "123">>},
       locs |-> {<<"chiangmai">>}, len |-> 600],
      \* a complete external letter without the user's data
      [ph |-> <<>>, words |-> FullExternal, docs |-> {}, locs |-> {}, len |-> 400],
      \* an internal memo with a placeholder left in
      [ph |-> <<"ORGANIZATION">>, words |-> FullInternal,
       docs |-> {<<"sothocho", "123">>}, locs |-> {<<"chiangmai">>}, len |-> 600],
      \* a short answer
      [ph |-> <<>>, words |-> {"rueang"}, docs |-> {}, locs |-> {}, len |-> 40] }

\* The known category names a classification response holds, in the order
\* of their first occurrence in the text: any names, in any order.
NamedInOrder ==
    { q \in UNION {[1..n -> CategoryNames] : n \in 0..Len(CATEGORIES)} :
        \A i, j \in 1..Len(q) : i # j => q[i] # q[j] }

\* What the completion service can answer, by the prompt's purpose: any text
\* for a direct caller, a text described by the category names it contains
\* for the classification prompt, a draft for the generation prompt.
Responses(purpose) ==
    IF purpose = "classify" THEN NamedInOrder
    ELSE IF purpose = "generate" THEN WorkflowDrafts
    ELSE {"text"}

\* ------------------------------------------------------ deepseek_complete
\* llm.py:84-88  the call starts
LLMStart(purpose, max_retries) ==
    /\ llm_status' = "running"
    /\ llm_purpose' = purpose
    /\ retries' = IF max_retries # <<>> THEN max_retries[1] ELSE LLM_MAX_RETRIES
    /\ attempt' = 0
    /\ last_error' = <<>>
    /\ caught' = <<>>
    /\ llm_result' = <<>>
    /\ llm_raised' = None
    /\ last_sleep' = <<>>
    /\ n_sleeps' = 0
    /\ n_calls' = 0
    /\ only_rate' = TRUE

\* The frame of a finished call is gone.
LLMIdle ==
    /\ llm_status' = "idle"
    /\ llm_purpose' = None
    /\ retries' = 0
    /\ attempt' = 0
    /\ last_error' = <<>>
    /\ caught' = <<>>
    /\ llm_result' = <<>>
    /\ llm_raised' = None
    /\ last_sleep' = <<>>
    /\ n_sleeps' = 0
    /\ n_calls' = 0
    /\ only_rate' = TRUE

\* llm.py:90-109  an attempt that succeeds: return result
LLMAttemptOk ==
    /\ llm_status = "running"
    /\ MoreAttempts(attempt, retries)
    /\ \E t \in Responses(llm_purpose) : llm_result' = <<t>>
    /\ llm_status' = "returned"
    /\ caught' = <<>>
    /\ n_calls' = n_calls + 1
    /\ only_rate' = FALSE
    /\ UNCHANGED <<llm_purpose, retries, attempt, last_error, llm_raised,
                   last_sleep, n_sleeps>>
    /\ UNCHANGED wf_vars

\* LLMAttemptRetryable with a timeout ending the call: the first attempt
\* that times out raises LLMTimeoutError, no sleep and no further attempt
LLMAttemptRetryable_TimeoutEndsCall ==
    /\ llm_status = "running"
    /\ MoreAttempts(attempt, retries)
    /\ \E e \in Exceptions :
          /\ IsRetryable(e)
          /\ caught' = <<e>>
          /\ last_error' = <<e>>
          /\ IF IsTimeout(e)
             THEN /\ llm_status' = "raised"
                  /\ llm_raised' = "LLMTimeoutError"
                  /\ UNCHANGED <<last_sleep, n_sleeps>>
             ELSE /\ UNCHANGED <<llm_status, llm_raised>>
                  /\ IF SleepsAfter(attempt, retries)
                     THEN /\ last_sleep' = <<BackoffDelay(e, attempt)>>
                          /\ n_sleeps' = n_sleeps + 1
                     ELSE UNCHANGED <<last_sleep, n_sleeps>>
          /\ only_rate' = (only_rate /\ IsRateLimited(e))
    /\ attempt' = attempt + 1
    /\ n_calls' = n_calls + 1
    /\ UNCHANGED <<llm_purpose, retries, llm_result>>
    /\ UNCHANGED wf_vars

\* llm.py:111-140  an attempt that fails with a retryable error: record it,
\* sleep unless this was the last attempt, go on with the next attempt
LLMAttemptRetryable ==
    /\ llm_status = "running"
    /\ MoreAttempts(attempt, retries)
    /\ \E e \in Exceptions :
          /\ IsRetryable(e)
          /\ caught' = <<e>>
          /\ last_error' = <<e>>
          /\ IF SleepsAfter(attempt, retries)
             THEN /\ last_sleep' = <<BackoffDelay(e, attempt)>>
                  /\ n_sleeps' = n_sleeps + 1
             ELSE UNCHANGED <<last_sleep, n_sleeps>>
          /\ only_rate' = (only_rate /\ IsRateLimited(e))
    /\ attempt' = attempt + 1
    /\ n_calls' = n_calls + 1
    /\ UNCHANGED <<llm_status, llm_purpose, retries, llm_result, llm_raised>>
    /\ UNCHANGED wf_vars

\* LLMAttemptFatal treating the error like a transient one: sleep and go on
LLMAttemptFatal_Retried ==
    /\ llm_status = "running"
    /\ MoreAttempts(attempt, retries)
    /\ \E e \in Exceptions :
          /\ ~IsRetryable(e)
          /\ caught' = <<e>>
          /\ last_error' = <<e>>
          /\ IF SleepsAfter(attempt, retries)
             THEN /\ last_sleep' = <<BackoffDelay(e, attempt)>>
                  /\ n_sleeps' = n_sleeps + 1
             ELSE UNCHANGED <<last_sleep, n_sleeps>>
    /\ only_rate' = FALSE
    /\ attempt' = attempt + 1
    /\ n_calls' = n_calls + 1
    /\ UNCHANGED <<llm_status, llm_purpose, retries, llm_result, llm_raised>>
    /\ UNCHANGED wf_vars

\* llm.py:142-144  an attempt that fails with any other error: raise LLMError
LLMAttemptFatal ==
    /\ llm_status = "running"
    /\ MoreAttempts(attempt, retries)
    /\ \E e \in Exceptions :
          /\ ~IsRetryable(e)
          /\ caught' = <<e>>
    /\ llm_status' = "raised"
    /\ llm_raised' = "LLMError"
    /\ n_calls' = n_calls + 1
    /\ only_rate' = FALSE
    /\ UNCHANGED <<llm_purpose, retries, attempt, last_error, llm_result,
                   last_sleep, n_sleeps>>
    /\ UNCHANGED wf_vars

\* llm.py:146-152  all retries exhausted
LLMExhausted ==
    /\ llm_status = "running"
    /\ ~MoreAttempts(attempt, retries)
    /\ llm_status' = "raised"
    /\ llm_raised' = ExhaustedError(last_error)
    /\ UNCHANGED <<llm_purpose, retries, attempt, last_error, caught, llm_result,
                   last_sleep, n_sleeps, n_calls, only_rate>>
    /\ UNCHANGED wf_vars

\* -------------------------------------------------------------- retrieval
\* What the retrieval service answers query(..., only_context=True) with:
\* a dict (with or without the key 'context') or a string; len is the length
\* of the context text, entities the entity list of the same query.
\* esc counts the characters of the text that repr() writes as two (a line
\* break, a backslash, a quote it has to escape).
RagResults ==
    { [is_dict |-> TRUE, has_context |-> FALSE, len |-> 0, esc |-> 0,
       entities |-> <<>>],
      [is_dict |-> FALSE, has_context |-> FALSE, len |-> 150, esc |-> 0,
       entities |-> <<"e1">>],
      [is_dict |-> FALSE, has_context |-> FALSE, len |-> 300, esc |-> 0,
       entities |-> <<"e1">>] }

RECURSIVE SumLen(_, _)
SumLen(exs, i) ==
    IF i > Len(exs) THEN 0
    ELSE exs[i].len + exs[i].esc + 2 + SumLen(exs, i + 1)

\* len(str(rag_examples)): the brackets, each text in quotes with its
\* escapes, ", " between
ReprLen(exs) ==
    IF exs = <<>> THEN 2 ELSE 2 + SumLen(exs, 1) + 2 * (Len(exs) - 1)

\* templates.py (not in the sources): the static example of a category
get_random_example_for_category(cat) ==
    <<[src |-> "fallback", len |-> 800, esc |-> 0]>>

\* RagExamples with the threshold applied to the length of the context text
RagExamples_ContextLength(r, cat) ==
    LET found ==
            IF r.is_dict /\ r.has_context
            THEN (IF r.len > 0
                  THEN <<[src |-> "rag", len |-> r.len, esc |-> r.esc]>>
                  ELSE <<>>)
            ELSE IF ~r.is_dict /\ r.len > 0
            THEN <<[src |-> "rag", len |-> r.len, esc |-> r.esc]>>
            ELSE <<>>
    IN  IF found = <<>> \/ found[1].len < ContextThreshold
        THEN found \o get_random_example_for_category(cat)
        ELSE found

\* workflow.py:125-139  the example list retrieve_context builds
RagExamples(r, cat) ==
    LET found ==
            IF r.is_dict /\ r.has_context
            THEN (IF r.len > 0
                  THEN <<[src |-> "rag", len |-> r.len, esc |-> r.esc]>>
                  ELSE <<>>)
            ELSE IF ~r.is_dict /\ r.len > 0
            THEN <<[src |-> "rag", len |-> r.len, esc |-> r.esc]>>
            ELSE <<>>
    IN  IF found = <<>> \/ ReprLen(found) < ContextThreshold
        THEN found \o get_random_example_for_category(cat)
        ELSE found

\* ------------------------------------------------- the retrieval handle
\* rag.py keeps one module-level handle.  The coroutines run on one event
\* loop: between two awaits a coroutine runs alone, so a step of a task below
\* is the code from one await to the next.
Tasks == 1..MaxTasks

\* a coroutine not inside get_rag or close_rag; ret is <<>> or <<what its
\* latest get_rag returned>>, last names what it did latest
IdleTask == [pc |-> "idle", h |-> 0, ret |-> <<>>, last |-> None]

\* rag.py:31-40  a LightRAG object: init is how far initialize_storages got
\* ("running", "done", "failed"), fin whether finalize_storages was started
NewHandle(progress) == [init |-> progress, fin |-> FALSE]

\* rag.py:20  _rag_instance = None, no coroutine running
AuxInit ==
    /\ prompt = <<>>
    /\ classify_response = <<>>
    /\ rag_instance = 0
    /\ handles = <<>>
    /\ tasks = [t \in Tasks |-> IdleTask]
    /\ rag_book = [epoch_built |-> 0, closing |-> FALSE]

\* rag.py:27-43  the handle once a query went through: built, initialised
RagAfterRetrieve ==
    /\ rag_instance = 1
    /\ handles = <<NewHandle("done")>>
    /\ tasks = [t \in Tasks |-> IdleTask]
    /\ rag_book = [epoch_built |-> 1, closing |-> FALSE]

\* rag.py:27-43  get_rag run to its end by a caller that nothing interleaves
\* with: the handle is built and initialised if there was none
GetRagAlone(progress) ==
    IF rag_instance = 0
    THEN /\ rag_instance' = Len(handles) + 1
         /\ handles' = Append(handles, NewHandle(progress))
         /\ rag_book' = [rag_book EXCEPT !.epoch_built = @ + 1]
         /\ UNCHANGED tasks
    ELSE UNCHANGED rag_vars

\* rag.py:27  get_rag finds a handle: it returns it without suspending
GetRagFound(t) ==
    /\ tasks[t].pc = "idle"
    /\ rag_instance # 0
    /\ tasks' = [tasks EXCEPT ![t] = [pc |-> "idle", h |-> 0,
                                      ret |-> <<rag_instance>>,
                                      last |-> "get_rag"]]
    /\ UNCHANGED <<rag_instance, handles, rag_book>>

\* GetRagBuild with the handle kept in a local until initialize_storages
\* is over: the global is still None while the coroutine is suspended
GetRagBuild_AssignAfterInit(t) ==
    /\ tasks[t].pc = "idle"
    /\ rag_instance = 0
    /\ Len(handles) < MaxHandles
    /\ handles' = Append(handles, NewHandle("running"))
    /\ tasks' = [tasks EXCEPT ![t] = [pc |-> "get_init", h |-> Len(handles) + 1,
                                      ret |-> <<>>, last |-> None]]
    /\ rag_book' = [rag_book EXCEPT !.epoch_built = @ + 1]
    /\ UNCHANGED rag_instance

\* rag.py:27-40  get_rag finds none: it builds a handle, stores it in the
\* global and suspends in initialize_storages
GetRagBuild(t) ==
    /\ tasks[t].pc = "idle"
    /\ rag_instance = 0
    /\ Len(handles) < MaxHandles
    /\ rag_instance' = Len(handles) + 1
    /\ handles' = Append(handles, NewHandle("running"))
    /\ tasks' = [tasks EXCEPT ![t] = [pc |-> "get_init", h |-> Len(handles) + 1,
                                      ret |-> <<>>, last |-> None]]
    /\ rag_book' = [rag_book EXCEPT !.epoch_built = @ + 1]

\* rag.py:40-43  initialize_storages is over: get_rag returns the global as
\* it is now
GetRagInitDone(t) ==
    /\ tasks[t].pc = "get_init"
    /\ handles' = [handles EXCEPT ![tasks[t].h].init = "done"]
    /\ tasks' = [tasks EXCEPT ![t] = [pc |-> "idle", h |-> 0,
                                      ret |-> <<rag_instance>>,
                                      last |-> "get_rag"]]
    /\ UNCHANGED <<rag_instance, rag_book>>

\* GetRagInitFails that gives the handle up: the global is None again, so
\* the next get_rag builds and initialises a new handle
GetRagInitFails_ResetsSingleton(t) ==
    /\ tasks[t].pc = "get_init"
    /\ handles' = [handles EXCEPT ![tasks[t].h].init = "failed"]
    /\ tasks' = [tasks EXCEPT ![t] = [pc |-> "idle", h |-> 0, ret |-> <<>>,
                                      last |-> "get_rag_raised"]]
    /\ rag_instance' = IF rag_instance = tasks[t].h THEN 0 ELSE rag_instance
    /\ UNCHANGED rag_book

\* rag.py:40  initialize_storages raises: the exception leaves get_rag, the
\* global keeps the handle
GetRagInitFails(t) ==
    /\ tasks[t].pc = "get_init"
    /\ handles' = [handles EXCEPT ![tasks[t].h].init = "failed"]
    /\ tasks' = [tasks EXCEPT ![t] = [pc |-> "idle", h |-> 0, ret |-> <<>>,
                                      last |-> "get_rag_raised"]]
    /\ UNCHANGED <<rag_instance, rag_book>>

\* rag.py:50  close_rag finds no handle: nothing happens
CloseRagNone(t) ==
    /\ tasks[t].pc = "idle"
    /\ rag_instance = 0
    /\ tasks' = [tasks EXCEPT ![t] = [pc |-> "idle", h |-> 0, ret |-> <<>>,
                                      last |-> "close_rag"]]
    /\ UNCHANGED <<rag_instance, handles, rag_book>>

\* rag.py:50-51  close_rag finds a handle and suspends in finalize_storages
CloseRagBegin(t) ==
    /\ tasks[t].pc = "idle"
    /\ rag_instance # 0
    /\ handles' = [handles EXCEPT ![rag_instance].fin = TRUE]
    /\ tasks' = [tasks EXCEPT ![t] = [pc |-> "close_fin", h |-> rag_instance,
                                      ret |-> <<>>, last |-> None]]
    /\ rag_book' = [rag_book EXCEPT !.closing = TRUE]
    /\ UNCHANGED rag_instance

\* rag.py:52  finalize_storages is over: the global is reset
CloseRagEnd(t) ==
    /\ tasks[t].pc = "close_fin"
    /\ rag_instance' = 0
    /\ tasks' = [tasks EXCEPT ![t] = [pc |-> "idle", h |-> 0, ret |-> <<>>,
                                      last |-> "close_rag"]]
    /\ rag_book' = [rag_book EXCEPT !.epoch_built = 0]
    /\ UNCHANGED handles

\* rag.py:51  finalize_storages raises: the exception leaves close_rag
\* before the global is reset
CloseRagFails(t) ==
    /\ tasks[t].pc = "close_fin"
    /\ tasks' = [tasks EXCEPT ![t] = [pc |-> "idle", h |-> 0, ret |-> <<>>,
                                      last |-> "close_rag_raised"]]
    /\ UNCHANGED <<rag_instance, handles, rag_book>>

\* ------------------------------------------------------------ the prompt
\* workflow.py:213, 214, 217  the phrases generate_draft looks for, romanised:
\* kho anumat, kho phicharana; raingan phon, phon kan truatsop, phon kan
\* damnoenkan; kho.  The last is a substring of the first two, and of other
\* words (khong, "of").
RequestPhrases == {"kho_anumat", "kho_phicharana"}

ReportPhrases == {"raingan_phon", "phon_kan_truatsop", "phon_kan_damnoenkan"}

SeekingWords == {"kho", "khong"} \cup RequestPhrases

\* `phrase in user_request` for a phrase that is one of the words of S
ContainsAny(req, S) == \E i \in 1..Len(req) : req[i] \in S

\* UseRequestTemplate with the report phrases taking precedence
UseRequestTemplate_ReportFirst(req) ==
    ~ContainsAny(req, ReportPhrases) /\ ContainsAny(req, SeekingWords)

\* workflow.py:213-217  use_request_template
UseRequestTemplate(req) ==
    LET is_approval_request == ContainsAny(req, RequestPhrases)
        is_report == ContainsAny(req, ReportPhrases)
    IN  is_approval_request \/ (~is_report /\ ContainsAny(req, SeekingWords))

\* workflow.py:251  rag_examples[0][:1500]
TruncateExample(e) ==
    [e EXCEPT !.len = IF @ > ExampleLimit THEN ExampleLimit ELSE @]

\* BuildPrompt that also puts the errors of the last validation in the prompt
BuildPrompt_WithErrors(req, examples) ==
    [use_request_template |-> UseRequestTemplate(req),
     user_data |-> extract_user_data(req),
     example |-> IF examples = <<>> THEN <<>>
                 ELSE <<TruncateExample(examples[1])>>,
     errors |-> validation_errors]

\* BuildPrompt that takes the last example of the list as the reference
BuildPrompt_LastExample(req, examples) ==
    [use_request_template |-> UseRequestTemplate(req),
     user_data |-> extract_user_data(req),
     example |-> IF examples = <<>> THEN <<>>
                 ELSE <<TruncateExample(examples[Len(examples)])>>]

\* workflow.py:209-294  what varies in the prompt generate_draft builds: the
\* template variant, the extracted user data, the reference example
BuildPrompt(req, examples) ==
    [use_request_template |-> UseRequestTemplate(req),
     user_data |-> extract_user_data(req),
     example |-> IF examples = <<>> THEN <<>>
                 ELSE <<TruncateExample(examples[1])>>]

\* ---------------------------------------------------------- the workflow
\* workflow.py:99, 203, 308  state category, else auto_category, else default
ResolvedCategory ==
    IF category # None THEN category
    ELSE IF auto_category # None THEN auto_category
    ELSE INTERNAL

\* ClassifyPreselected asking the completion client all the same
ClassifyPreselected_AsksClient ==
    /\ pc = "classify"
    /\ category # None
    /\ llm_status = "idle"
    /\ LLMStart("classify", <<>>)
    /\ pc' = "classify_llm"
    /\ UNCHANGED aux_vars
    /\ UNCHANGED state_vars
    /\ UNCHANGED <<returned, error>>
    /\ UNCHANGED book_vars

\* workflow.py:57-64  classify_category, the category was given
ClassifyPreselected ==
    /\ pc = "classify"
    /\ category # None
    /\ auto_category' = category
    /\ classification_confidence' = 10
    /\ pc' = "retrieve"
    /\ UNCHANGED aux_vars
    /\ UNCHANGED <<user_request, category, rag_examples, entities, draft,
                   validation_errors, retry_count, is_valid, final_document,
                   returned, error>>
    /\ UNCHANGED book_vars
    /\ UNCHANGED llm_vars

\* workflow.py:66-69  classify_category asks the completion client
ClassifyCall ==
    /\ pc = "classify"
    /\ category = None
    /\ llm_status = "idle"
    /\ LLMStart("classify", <<>>)
    /\ pc' = "classify_llm"
    /\ UNCHANGED aux_vars
    /\ UNCHANGED state_vars
    /\ UNCHANGED <<returned, error>>
    /\ UNCHANGED book_vars

\* FirstNamed that takes the name occurring first in the response
FirstNamed_ByOccurrence(response, i) ==
    IF response = <<>> THEN None ELSE response[1]

RECURSIVE FirstNamed(_, _)
\* workflow.py:76-79  for cat_name in CATEGORIES.keys(): the first one that
\* occurs in the response (None if none does)
FirstNamed(response, i) ==
    IF i > Len(CATEGORIES) THEN None
    ELSE IF \E k \in 1..Len(response) : response[k] = CATEGORIES[i]
         THEN CATEGORIES[i]
    ELSE FirstNamed(response, i + 1)

\* ParseCategory keeping the confidence of a recognised answer when it
\* falls back to the default
ParseCategory_AlwaysConfident(response) ==
    IF FirstNamed(response, 1) # None
    THEN [category |-> FirstNamed(response, 1), confidence |-> 8]
    ELSE [category |-> INTERNAL, confidence |-> 8]

\* workflow.py:72-84  the category and the confidence parsed from a response
ParseCategory(response) ==
    IF FirstNamed(response, 1) # None
    THEN [category |-> FirstNamed(response, 1), confidence |-> 8]
    ELSE [category |-> INTERNAL, confidence |-> 5]

\* workflow.py:69-93  classify_category after the completion returned
ClassifyReturn ==
    /\ pc = "classify_llm"
    /\ llm_status = "returned"
    /\ LET parsed == ParseCategory(llm_result[1])
       IN  /\ category' = parsed.category
           /\ auto_category' = parsed.category
           /\ classification_confidence' = parsed.confidence
    /\ classify_response' = <<llm_result[1]>>
    /\ pc' = "retrieve"
    /\ UNCHANGED <<prompt, rag_vars>>
    /\ LLMIdle
    /\ UNCHANGED <<user_request, rag_examples, entities, draft,
                   validation_errors, retry_count, is_valid, final_document,
                   returned, error>>
    /\ UNCHANGED book_vars

\* CompletionErrorPropagates with the error caught and the draft at hand
\* returned instead
CompletionError_Swallowed ==
    /\ pc \in {"classify_llm", "generate_llm"}
    /\ llm_status = "raised"
    /\ returned' = <<draft>>
    /\ pc' = "done"
    /\ UNCHANGED aux_vars
    /\ LLMIdle
    /\ UNCHANGED state_vars
    /\ UNCHANGED error
    /\ UNCHANGED book_vars

\* An exception of deepseek_complete is caught by neither classify_category
\* (workflow.py:69) nor generate_draft (workflow.py:296) nor generate_document
\* (workflow.py:448): it leaves generate_document.
CompletionErrorPropagates ==
    /\ pc \in {"classify_llm", "generate_llm"}
    /\ llm_status = "raised"
    /\ error' = llm_raised
    /\ pc' = "aborted"
    /\ UNCHANGED aux_vars
    /\ LLMIdle
    /\ UNCHANGED state_vars
    /\ UNCHANGED returned
    /\ UNCHANGED book_vars

\* workflow.py:96-150, rag.py:109, 134  retrieve_context, the retrieval
\* service answering with one of results; query gets the handle first
Retrieve(results) ==
    /\ pc = "retrieve"
    /\ \E r \in results :
          /\ rag_examples' = RagExamples(r, ResolvedCategory)
          /\ entities' = r.entities
    /\ pc' = "generate"
    /\ GetRagAlone("done")
    /\ classify_response' = <<>>
    /\ UNCHANGED prompt
    /\ UNCHANGED <<user_request, category, auto_category,
                   classification_confidence, draft, validation_errors,
                   retry_count, is_valid, final_document, returned, error>>
    /\ UNCHANGED book_vars
    /\ UNCHANGED llm_vars

RetrieveContext == Retrieve(RagResults)

\* workflow.py:120, 123  the retrieval service raises (initialize_storages
\* in get_rag, or the query after it); nothing catches it
RetrieveFails ==
    /\ pc = "retrieve"
    /\ error' = "RetrievalError"
    /\ pc' = "aborted"
    /\ \E progress \in {"failed", "done"} : GetRagAlone(progress)
    /\ classify_response' = <<>>
    /\ UNCHANGED prompt
    /\ UNCHANGED state_vars
    /\ UNCHANGED returned
    /\ UNCHANGED book_vars
    /\ UNCHANGED llm_vars

\* workflow.py:200-296  generate_draft builds the prompt and asks the client
GenerateCall ==
    /\ pc = "generate"
    /\ llm_status = "idle"
    /\ LLMStart("generate", <<>>)
    /\ gen_count' = gen_count + 1
    /\ pc' = "generate_llm"
    /\ prompt' = <<BuildPrompt(user_request, rag_examples)>>
    /\ UNCHANGED <<classify_response, rag_vars>>
    /\ UNCHANGED state_vars
    /\ UNCHANGED <<returned, error>>
    /\ UNCHANGED <<arg_category, val_count, fail_count, pass_count, last_generated,
                   prev>>

\* workflow.py:296-299  return {**state, "draft": draft}
GenerateUpdate(text) == draft' = text

GenerateReturn ==
    /\ pc = "generate_llm"
    /\ llm_status = "returned"
    /\ GenerateUpdate(llm_result[1])
    /\ last_generated' = <<llm_result[1]>>
    /\ pc' = "validate"
    /\ UNCHANGED aux_vars
    /\ LLMIdle
    /\ UNCHANGED <<user_request, category, auto_category,
                   classification_confidence, rag_examples, entities,
                   validation_errors, retry_count, is_valid, final_document,
                   returned, error>>
    /\ UNCHANGED <<arg_category, gen_count, val_count, fail_count, pass_count, prev>>

\* should_retry sending a failed draft back to the retrieve node
should_retry_ToRetrieve(valid, count) ==
    IF valid THEN "end"
    ELSE IF count < 3 THEN "retrieve"
    ELSE "end"

\* should_retry with a retry bound of 5
should_retry_Bound5(valid, count) ==
    IF valid THEN "end"
    ELSE IF count < 5 THEN "generate"
    ELSE "end"

\* should_retry with a retry bound of 2
should_retry_Bound2(valid, count) ==
    IF valid THEN "end"
    ELSE IF count < 2 THEN "generate"
    ELSE "end"

\* should_retry that looks at the retry counter only
should_retry_IgnoresValid(valid, count) ==
    IF count < 3 THEN "generate" ELSE "end"

\* should_retry comparing with <= : one more round after the third failure
should_retry_Inclusive(valid, count) ==
    IF valid THEN "end"
    ELSE IF count <= 3 THEN "generate"
    ELSE "end"

\* workflow.py:367-379  should_retry
should_retry(valid, count) ==
    IF valid THEN "end"
    ELSE IF count < 3 THEN "generate"
    ELSE "end"

\* ValidateUpdate with the errors added to those the state holds, as a
\* list field with an add reducer would
ValidateUpdate_Accumulates(errors) ==
    IF errors # <<>>
    THEN /\ validation_errors' = validation_errors \o errors
         /\ retry_count' = retry_count + 1
         /\ is_valid' = FALSE
         /\ UNCHANGED final_document
    ELSE /\ validation_errors' = <<>>
         /\ is_valid' = TRUE
         /\ final_document' = draft
         /\ UNCHANGED retry_count

\* ValidateUpdate that writes the error list only when there are errors, so
\* that a draft which passes keeps the errors of the draft before it
ValidateUpdate_KeepsOnSuccess(errors) ==
    IF errors # <<>>
    THEN /\ validation_errors' = errors
         /\ retry_count' = retry_count + 1
         /\ is_valid' = FALSE
         /\ UNCHANGED final_document
    ELSE /\ UNCHANGED validation_errors
         /\ is_valid' = TRUE
         /\ final_document' = draft
         /\ UNCHANGED retry_count

\* ValidateUpdate that counts every validation, passed or failed
ValidateUpdate_CountsEveryValidate(errors) ==
    IF errors # <<>>
    THEN /\ validation_errors' = errors
         /\ retry_count' = retry_count + 1
         /\ is_valid' = FALSE
         /\ UNCHANGED final_document
    ELSE /\ validation_errors' = <<>>
         /\ is_valid' = TRUE
         /\ final_document' = draft
         /\ retry_count' = retry_count + 1

\* workflow.py:347-364  the state validate_document returns for an error list
ValidateUpdate(errors) ==
    IF errors # <<>>
    THEN /\ validation_errors' = errors
         /\ retry_count' = retry_count + 1
         /\ is_valid' = FALSE
         /\ UNCHANGED final_document
    ELSE /\ validation_errors' = <<>>
         /\ is_valid' = TRUE
         /\ final_document' = draft
         /\ UNCHANGED retry_count

\* workflow.py:302-364, 402-409  validate_document, then the conditional edge
ValidateDocument ==
    /\ pc = "validate"
    /\ LET errors == ValidationErrors(draft, ResolvedCategory, user_request)
       IN  /\ ValidateUpdate(errors)
           /\ fail_count' = IF errors # <<>> THEN fail_count + 1 ELSE fail_count
           /\ pass_count' = IF errors = <<>> THEN pass_count + 1 ELSE pass_count
    /\ val_count' = val_count + 1
    /\ pc' = should_retry(is_valid', retry_count')
    /\ UNCHANGED aux_vars
    /\ UNCHANGED <<user_request, category, auto_category,
                   classification_confidence, rag_examples, entities, draft,
                   returned, error>>
    /\ UNCHANGED <<arg_category, gen_count, last_generated, prev>>
    /\ UNCHANGED llm_vars

\* ReturnValue without the fall-back to the draft
ReturnValue_FinalOnly(final, text) == final

\* workflow.py:450  result.get('final_document') or result.get('draft', '')
ReturnValue(final, text) == IF final # EmptyText THEN final ELSE text

\* workflow.py:448-450  the graph reached END: generate_document returns
ReturnDocument ==
    /\ pc = "end"
    /\ returned' = <<ReturnValue(final_document, draft)>>
    /\ pc' = "done"
    /\ UNCHANGED aux_vars
    /\ UNCHANGED state_vars
    /\ UNCHANGED error
    /\ UNCHANGED book_vars
    /\ UNCHANGED llm_vars

\* workflow.py:432-446  generate_document(user_request, category): the
\* initial state
InitWith(requests) ==
    /\ pc = "classify"
    /\ user_request \in requests
    /\ category \in {None} \cup CategoryNames
    /\ arg_category = category
    /\ auto_category = None
    /\ classification_confidence = 0
    /\ rag_examples = <<>>
    /\ entities = <<>>
    /\ draft = EmptyText
    /\ validation_errors = <<>>
    /\ retry_count = 0
    /\ is_valid = FALSE
    /\ final_document = EmptyText
    /\ returned = <<>>
    /\ error = None
    /\ gen_count = 0
    /\ val_count = 0
    /\ fail_count = 0
    /\ pass_count = 0
    /\ last_generated = <<>>
    /\ prev = <<>>
    /\ AuxInit
    /\ llm_status = "idle"
    /\ llm_purpose = None
    /\ retries = 0
    /\ attempt = 0
    /\ last_error = <<>>
    /\ caught = <<>>
    /\ llm_result = <<>>
    /\ llm_raised = None
    /\ last_sleep = <<>>
    /\ n_sleeps = 0
    /\ n_calls = 0
    /\ only_rate = TRUE

Init == InitWith(Requests)

Next ==
    \/ ClassifyPreselected
    \/ ClassifyCall
    \/ ClassifyReturn
    \/ CompletionErrorPropagates
    \/ RetrieveContext
    \/ RetrieveFails
    \/ GenerateCall
    \/ GenerateReturn
    \/ ValidateDocument
    \/ ReturnDocument
    \/ LLMAttemptOk
    \/ LLMAttemptRetryable
    \/ LLMAttemptFatal
    \/ LLMExhausted

Spec == Init /\ [][Next]_vars

\* The event loop runs every coroutine that can run, and each attempt ends
\* (wait_for bounds it by LLM_TIMEOUT).
FairSpec == Spec /\ WF_vars(Next)

\* ------------------------------------------- a direct call of the client
\* deepseek_complete called on its own (rag.py:33 hands it to LightRAG as
\* llm_model_func), with any max_retries argument.
InitLLM ==
    /\ pc = "direct"
    /\ user_request = <<>>
    /\ category = None
    /\ arg_category = None
    /\ auto_category = None
    /\ classification_confidence = 0
    /\ rag_examples = <<>>
    /\ entities = <<>>
    /\ draft = EmptyText
    /\ validation_errors = <<>>
    /\ retry_count = 0
    /\ is_valid = FALSE
    /\ final_document = EmptyText
    /\ returned = <<>>
    /\ error = None
    /\ gen_count = 0
    /\ val_count = 0
    /\ fail_count = 0
    /\ pass_count = 0
    /\ last_generated = <<>>
    /\ prev = <<>>
    /\ AuxInit
    /\ llm_status = "running"
    /\ llm_purpose = "direct"
    /\ retries \in 0..MaxRetriesArg
    /\ attempt = 0
    /\ last_error = <<>>
    /\ caught = <<>>
    /\ llm_result = <<>>
    /\ llm_raised = None
    /\ last_sleep = <<>>
    /\ n_sleeps = 0
    /\ n_calls = 0
    /\ only_rate = TRUE

NextLLM ==
    \/ LLMAttemptOk
    \/ LLMAttemptRetryable
    \/ LLMAttemptFatal
    \/ LLMExhausted

SpecLLM == InitLLM /\ [][NextLLM]_vars

FairSpecLLM == SpecLLM /\ WF_vars(NextLLM)

\* --------------------------------------------- validation of any draft
\* validate_document applied to a draft the completion service may have
\* answered with, in a state Generate leaves: any list of placeholders, the
\* sections of a category or none, long or short, with or without the
\* user's data.
PlaceholderNames == {"ORGANIZATION", "DATE"}

PlaceholderLists ==
    UNION {[1..n -> PlaceholderNames] : n \in 0..MaxPlaceholders}

ValidateDrafts ==
    { [ph |-> p, words |-> w, docs |-> d.docs, locs |-> d.locs, len |-> l] :
        p \in PlaceholderLists,
        w \in {FullInternal, FullInternal \ {"rueang_phuea_phicharana"},
                FullExternal, {}},
        d \in { [docs |-> {}, locs |-> {}],
                [docs |-> {<<"sothocho", "123">>}, locs |-> {<<"chiangmai">>}],
                [docs |-> {<<"sothocho", "TAB", "123">>},
                 locs |-> {<<"chiangmai">>}] },
        l \in {199, 600} }

\* The requests of the runs, and one with a tab inside the document number
ValidateRequests ==
    Requests \cup
    { <<"sothocho", "TAB", "123", "SP", "changwat", "SP", "chiangmai", "lae",
        "phuket">> }

\* workflow.py:302-309  the state validate_document is called with
InitValidateWith(requests, drafts) ==
    /\ pc = "validate"
    /\ user_request \in requests
    /\ category \in CategoryNames
    /\ arg_category = category
    /\ auto_category = category
    /\ classification_confidence = 10
    /\ rag_examples = get_random_example_for_category(category)
    /\ entities = <<>>
    /\ draft \in drafts
    /\ retry_count \in {0, 2}
    /\ validation_errors =
          IF retry_count = 0 THEN <<>> ELSE <<Err("Document too short", <<>>)>>
    /\ is_valid = FALSE
    /\ final_document = EmptyText
    /\ returned = <<>>
    /\ error = None
    /\ gen_count = retry_count + 1
    /\ val_count = retry_count
    /\ fail_count = retry_count
    /\ pass_count = 0
    /\ last_generated = <<draft>>
    /\ prev = <<>>
    /\ prompt = <<BuildPrompt(user_request, rag_examples)>>
    /\ classify_response = <<>>
    /\ RagAfterRetrieve
    /\ llm_status = "idle"
    /\ llm_purpose = None
    /\ retries = 0
    /\ attempt = 0
    /\ last_error = <<>>
    /\ caught = <<>>
    /\ llm_result = <<>>
    /\ llm_raised = None
    /\ last_sleep = <<>>
    /\ n_sleeps = 0
    /\ n_calls = 0
    /\ only_rate = TRUE

InitValidate == InitValidateWith(ValidateRequests, ValidateDrafts)

NextValidate ==
    \/ ValidateDocument
    \/ ReturnDocument

SpecValidate == InitValidate /\ [][NextValidate]_vars

\* ------------------------------------- callers of get_rag and close_rag
\* Coroutines of one event loop that call get_rag and close_rag in any
\* order (rag.py:58, 109, 165); no document is being generated.
InitRag ==
    /\ pc = "rag"
    /\ user_request = <<>>
    /\ category = None
    /\ arg_category = None
    /\ auto_category = None
    /\ classification_confidence = 0
    /\ rag_examples = <<>>
    /\ entities = <<>>
    /\ draft = EmptyText
    /\ validation_errors = <<>>
    /\ retry_count = 0
    /\ is_valid = FALSE
    /\ final_document = EmptyText
    /\ returned = <<>>
    /\ error = None
    /\ gen_count = 0
    /\ val_count = 0
    /\ fail_count = 0
    /\ pass_count = 0
    /\ last_generated = <<>>
    /\ prev = <<>>
    /\ AuxInit
    /\ llm_status = "idle"
    /\ llm_purpose = None
    /\ retries = 0
    /\ attempt = 0
    /\ last_error = <<>>
    /\ caught = <<>>
    /\ llm_result = <<>>
    /\ llm_raised = None
    /\ last_sleep = <<>>
    /\ n_sleeps = 0
    /\ n_calls = 0
    /\ only_rate = TRUE

NextRag ==
    \E t \in Tasks :
        /\ \/ GetRagFound(t)
           \/ GetRagBuild(t)
           \/ GetRagInitDone(t)
           \/ GetRagInitFails(t)
           \/ CloseRagNone(t)
           \/ CloseRagBegin(t)
           \/ CloseRagEnd(t)
           \/ CloseRagFails(t)
        /\ UNCHANGED <<pc, state_vars, returned, error, book_vars, prompt,
                       classify_response>>
        /\ UNCHANGED llm_vars

SpecRag == InitRag /\ [][NextRag]_vars

\* ------------------------------------------- retrieval of any context
\* retrieve_context in a run whose category was given, the retrieval service
\* answering with a context text of any length around the threshold.
ContextLengths == {0, 1, 150, 195, 196, 199, 200, 201, 300}

RagContexts ==
    { [is_dict |-> TRUE, has_context |-> FALSE, len |-> 0, esc |-> 0,
       entities |-> <<>>] } \cup
    { r \in { [is_dict |-> d, has_context |-> d, len |-> l, esc |-> e,
                entities |-> <<"e1">>] :
                 d \in BOOLEAN, l \in ContextLengths, e \in {0, 1, 60} } :
        r.esc <= r.len }

RetrieveAnyContext == Retrieve(RagContexts)

InitRetrieve ==
    /\ Init
    /\ category # None

NextRetrieve ==
    \/ ClassifyPreselected
    \/ RetrieveAnyContext
    \/ RetrieveFails

SpecRetrieve == InitRetrieve /\ [][NextRetrieve]_vars

\* ------------------------------------------- the prompt of any request
\* generate_draft in a run for an internal memo, for requests that hold any
\* of the phrases the template choice looks at, and for requests that are
\* any short text of markers, words, boundary words, spaces and digits.
PhraseOrder ==
    <<"kho_anumat", "raingan_phon", "kho_phicharana", "phon_kan_truatsop",
      "kho", "phon_kan_damnoenkan", "khong", "chiangmai">>

TemplateRequests ==
    { SelectSeq(PhraseOrder, LAMBDA w : w \in S) :
        S \in SUBSET {PhraseOrder[i] : i \in 1..Len(PhraseOrder)} }

LocationAlphabet == {"changwat", "phuenthi", "chiangmai", "truat", "SP", "123"}

LocationRequests ==
    UNION {[1..n -> LocationAlphabet] : n \in 1..MaxRequestLen}

GenerateRequests == TemplateRequests \cup LocationRequests

InitGenerate ==
    /\ InitWith(GenerateRequests)
    /\ category = INTERNAL

NextGenerate ==
    \/ ClassifyPreselected
    \/ RetrieveContext
    \/ RetrieveFails
    \/ GenerateCall

SpecGenerate == InitGenerate /\ [][NextGenerate]_vars

\* ------------------------------------------- the reference of the prompt
\* retrieve_context and generate_draft in a run whose category was given, the
\* retrieval service answering with a context text of any length around the
\* fall-back threshold and around the character budget of the reference.
ReferenceLengths == {1499, 1500, 1501, 3000}

ReferenceContexts ==
    RagContexts \cup
    { [is_dict |-> d, has_context |-> d, len |-> l, esc |-> 0,
       entities |-> <<"e1">>] : d \in BOOLEAN, l \in ReferenceLengths }

RetrieveReference == Retrieve(ReferenceContexts)

NextReference ==
    \/ ClassifyPreselected
    \/ RetrieveReference
    \/ RetrieveFails
    \/ GenerateCall

SpecReference == InitRetrieve /\ [][NextReference]_vars

\* ------------------------------------------- validation run a second time
\* validate_document called again on the state it returned (same draft,
\* category and request; the retry counter and the errors are those the
\* first validation left); prev keeps the verdict of the first validation.
Revalidate ==
    /\ pc \in {"generate", "end"}
    /\ prev = <<>>
    /\ prev' = <<[validation_errors |-> validation_errors,
                  is_valid |-> is_valid, retry_count |-> retry_count]>>
    /\ pc' = "validate"
    /\ UNCHANGED aux_vars
    /\ UNCHANGED state_vars
    /\ UNCHANGED <<returned, error>>
    /\ UNCHANGED <<arg_category, gen_count, val_count, fail_count, pass_count,
                   last_generated>>
    /\ UNCHANGED llm_vars

RevalidateDrafts == {d \in ValidateDrafts : Len(d.ph) <= 1}

InitRevalidate == InitValidateWith(ValidateRequests, RevalidateDrafts)

NextRevalidate ==
    \/ ValidateDocument
    \/ Revalidate

SpecRevalidate == InitRevalidate /\ [][NextRevalidate]_vars

\* ------------------------------------------------ two calls in a row
\* generate_document called again with the same arguments after it returned;
\* prev keeps what the caller gave and got the first time, and the verdict
\* the workflow state held then.
NewCall ==
    /\ pc = "done"
    /\ prev = <<>>
    /\ prev' = <<[user_request |-> user_request, category |-> arg_category,
                  returned |-> returned[1], is_valid |-> is_valid]>>
    /\ pc' = "classify"
    /\ UNCHANGED aux_vars
    /\ category' = arg_category
    /\ auto_category' = None
    /\ classification_confidence' = 0
    /\ rag_examples' = <<>>
    /\ entities' = <<>>
    /\ draft' = EmptyText
    /\ validation_errors' = <<>>
    /\ retry_count' = 0
    /\ is_valid' = FALSE
    /\ final_document' = EmptyText
    /\ returned' = <<>>
    /\ gen_count' = 0
    /\ val_count' = 0
    /\ fail_count' = 0
    /\ pass_count' = 0
    /\ last_generated' = <<>>
    /\ UNCHANGED <<user_request, arg_category, error>>
    /\ UNCHANGED llm_vars

InitCalls ==
    /\ Init
    /\ category = None
    /\ user_request \in {<<"kho">>, <<"kho", "changwat", "chiangmai", "truat">>}

NextCalls ==
    \/ ClassifyCall
    \/ ClassifyReturn
    \/ CompletionErrorPropagates
    \/ RetrieveContext
    \/ RetrieveFails
    \/ GenerateCall
    \/ GenerateReturn
    \/ ValidateDocument
    \/ ReturnDocument
    \/ LLMAttemptOk
    \/ LLMAttemptRetryable
    \/ LLMAttemptFatal
    \/ LLMExhausted
    \/ NewCall

SpecCalls == InitCalls /\ [][NextCalls]_vars

\* ================================================================ claims
Range(seq) == {seq[i] : i \in 1..Len(seq)}

Finished == pc \in {"done", "aborted"}

\* C1: one generate_document run ends, and it starts Generate at most 1 + 3
\* times, whatever the completion, retrieval and validation outcomes are.
C1_TerminatesWithinFourGenerates ==
    /\ [](gen_count <= 1 + 3)
    /\ <>[]Finished

\* C1 witness: a run that used up the retry bound and returned.
C1_Witness == pc = "done" /\ ~is_valid /\ gen_count = 3 /\ retry_count = 3

\* C2: the document returned is the text of the last Generate; it either
\* passed validation, being the only draft of the run that did and the last
\* one validated, or no draft passed and the retry bound was reached.
C2_ReturnsFirstValidOrLastDraft ==
    pc = "done" =>
        /\ returned = last_generated
        /\ gen_count = val_count
        /\ \/ /\ is_valid
              /\ pass_count = 1
              /\ ValidationErrors(returned[1], ResolvedCategory, user_request) = <<>>
           \/ /\ ~is_valid
              /\ pass_count = 0
              /\ fail_count = 3
              /\ ValidationErrors(returned[1], ResolvedCategory, user_request) # <<>>

\* C2 witness: a run returned a draft that passed after two drafts failed.
C2_Witness == pc = "done" /\ is_valid /\ gen_count = 3 /\ fail_count = 2

\* The kind of error the claims assign to a failure.
KindOfFailure(e) ==
    IF e.timeout THEN "LLMTimeoutError"
    ELSE IF e.rate /\ e.limit THEN "LLMRateLimitError"
    ELSE "LLMError"

\* C3: when deepseek_complete raises after its last allowed attempt failed,
\* the error is LLMTimeoutError if that failure was a timeout,
\* LLMRateLimitError if it was rate-limited, and LLMError otherwise.
C3_RaisedKindMatchesLastFailure ==
    (llm_status = "raised" /\ n_calls = retries + 1 /\ caught # <<>>)
        => llm_raised = KindOfFailure(caught[1])

\* C4: a call of deepseek_complete invokes the completion service at most
\* max_retries + 1 times (4 by default) and ends returned or raised.
C4_AtMostRetriesPlusOneAttempts ==
    /\ [](n_calls <= retries + 1)
    /\ [](retries = LLM_MAX_RETRIES => n_calls <= 4)
    /\ <>[](llm_status \in {"returned", "raised"})

\* C4 witness: the default number of retries, all four attempts made.
C4_Witness == retries = 3 /\ n_calls = 4 /\ llm_status = "raised"

FatalFailure(e) == ~e.timeout /\ ~(e.rate /\ e.limit) /\ ~e.trans

\* C5: an attempt failing with an error that is no timeout, not rate-limited
\* and not transient makes the call raise LLMError at once: no sleep, and no
\* attempt after the call has raised.
C5_FatalNeverRetried ==
    [][ /\ (n_calls' = n_calls + 1 /\ caught' # <<>> /\ FatalFailure(caught'[1]))
            => /\ llm_status' = "raised"
               /\ llm_raised' = "LLMError"
               /\ n_sleeps' = n_sleeps
               /\ attempt' = attempt
        /\ llm_status = "raised" => n_calls' = n_calls
      ]_vars

\* C5 witness: a fatal error on the third attempt, after two retried ones.
C5_Witness ==
    /\ llm_status = "raised"
    /\ caught # <<>> /\ FatalFailure(caught[1])
    /\ n_calls = 3 /\ n_sleeps = 2 /\ retries = 3

\* C6: when deepseek_complete raises during Classify or Generate, the call
\* of generate_document ends with that error and returns nothing, also when
\* a draft exists already; an aborted call stays aborted.
C6_CompletionErrorAborts ==
    [][ /\ (llm_status = "raised" /\ pc \in {"classify_llm", "generate_llm"})
            => (pc' = "aborted" /\ error' = llm_raised /\ returned' = <<>>)
        /\ pc = "aborted" => (pc' = "aborted" /\ returned' = <<>>)
      ]_vars

\* C6 witness: a regeneration failed after an earlier draft was validated.
C6_Witness ==
    /\ pc = "aborted" /\ error = "LLMRateLimitError"
    /\ draft # EmptyText /\ retry_count = 2 /\ returned = <<>>

\* C7 as stated: what generate_document returns tells the caller whether the
\* draft passed validation, so two calls with the same arguments that return
\* the same value agree on the verdict.
C7_ReturnTellsVerdict ==
    (pc = "done" /\ prev # <<>>
        /\ prev[1].user_request = user_request
        /\ prev[1].category = arg_category
        /\ prev[1].returned = returned[1])
        => prev[1].is_valid = is_valid

\* C7 amended: generate_document returns the text of the current draft and
\* nothing else, the same way whether the draft passed or the retry bound was
\* reached with the draft still failing; the verdict stays in the workflow
\* state.
C7_ReturnsTextOnly ==
    pc = "done" =>
        /\ returned = <<draft>>
        /\ is_valid => (final_document = draft /\ validation_errors = <<>>)
        /\ ~is_valid => (retry_count = 3 /\ validation_errors # <<>>
                         /\ final_document = EmptyText)

\* C7 witness: two calls with the same arguments returned the same text, one
\* with a draft that passed and one with a draft that never did.
C7_Witness ==
    /\ pc = "done" /\ prev # <<>>
    /\ prev[1].user_request = user_request
    /\ prev[1].category = arg_category
    /\ prev[1].returned = returned[1]
    /\ prev[1].is_valid # is_valid

\* C8: the delay slept after a failed attempt is LLM_RETRY_DELAY * 2^attempt
\* after a timeout or a transient error and twice that after a rate-limited
\* one, also when the rate-limited error matches the transient signature; a
\* retryable failure that is not the last attempt is followed by a sleep.
C8_BackoffDelay ==
    [][ /\ n_sleeps' = n_sleeps + 1
            => /\ caught' # <<>>
               /\ last_sleep' =
                    <<IF ~caught'[1].timeout /\ caught'[1].rate /\ caught'[1].limit
                      THEN 2 * LLM_RETRY_DELAY * Pow2(attempt)
                      ELSE LLM_RETRY_DELAY * Pow2(attempt)>>
        /\ (n_calls' = n_calls + 1 /\ caught' # <<>>
              /\ ~FatalFailure(caught'[1]) /\ attempt < retries)
            => n_sleeps' = n_sleeps + 1
      ]_vars

\* C8 witness: an error matching both signatures on the third attempt slept 8.
C8_Witness ==
    /\ caught = <<[timeout |-> FALSE, rate |-> TRUE, limit |-> TRUE, trans |-> TRUE]>>
    /\ attempt = 3 /\ last_sleep = <<8>> /\ n_sleeps = 3

\* C9: with LLM_RETRY_DELAY = 1 and 3 retries, when every attempt fails
\* rate-limited, each sleep is longer than the one before and the call
\* raises LLMRateLimitError after the 4th attempt, with 3 sleeps made.
C9_RateLimitedScenario ==
    [][ (retries = 3 /\ only_rate')
            => /\ (n_sleeps' = n_sleeps + 1 /\ n_sleeps > 0)
                    => last_sleep'[1] > last_sleep[1]
               /\ llm_status' = "raised"
                    => /\ llm_raised' = "LLMRateLimitError"
                       /\ n_calls' = 4
                       /\ n_sleeps' = 3
      ]_vars

\* C9 witness: four rate-limited attempts, the call has raised.
C9_Witness ==
    /\ retries = 3 /\ only_rate /\ llm_status = "raised" /\ n_calls = 4
    /\ last_sleep = <<8>> /\ LLM_RETRY_DELAY = 1

Validated == pc \in {"generate", "end", "done"}

NamesOrganization(errors) ==
    \E i \in 1..Len(errors) :
        /\ errors[i].kind = "Unreplaced placeholders"
        /\ "ORGANIZATION" \in Range(errors[i].what)

\* C10 as stated: every draft containing [ORGANIZATION] fails validation
\* with an unreplaced-placeholder error that names ORGANIZATION.
C10_OrganizationAlwaysNamed ==
    (Validated /\ "ORGANIZATION" \in Range(draft.ph))
        => (~is_valid /\ NamesOrganization(validation_errors))

\* C10 amended: every draft containing [ORGANIZATION] fails validation with
\* an unreplaced-placeholder error; the error names ORGANIZATION exactly
\* when [ORGANIZATION] is among the first 5 bracketed upper-case tokens.
C10_OrganizationNamedAmongFirstFive ==
    (Validated /\ "ORGANIZATION" \in Range(draft.ph))
        => /\ ~is_valid
           /\ \E i \in 1..Len(validation_errors) :
                 validation_errors[i].kind = "Unreplaced placeholders"
           /\ NamesOrganization(validation_errors)
                 <=> (\E k \in 1..5 : k <= Len(draft.ph) /\ draft.ph[k] = "ORGANIZATION")

\* C10 witness: [ORGANIZATION] is the fifth token, after four others.
C10_Witness ==
    /\ Validated /\ Len(draft.ph) = 5
    /\ draft.ph[5] = "ORGANIZATION"
    /\ \A k \in 1..4 : draft.ph[k] = "DATE"
    /\ NamesOrganization(validation_errors)

\* every kind of whitespace removed (the model's requests hold spaces and tabs)
RemoveWhitespace(toks) == SelectSeq(toks, LAMBDA t : t \notin SpaceTokens)

\* C11: when the extractor obtains a document number (a location) from the
\* request, a document returned by a run that ended with is_valid = TRUE
\* contains that number once whitespace is removed from both (contains the
\* location literally).
C11_ValidDocumentUsesUserData ==
    (pc = "done" /\ is_valid /\ returned # <<>>) =>
        LET user_data == extract_user_data(user_request)
            document == returned[1]
        IN  /\ user_data.doc_number # <<>> =>
                  \E d \in document.docs :
                      RemoveWhitespace(d) = RemoveWhitespace(user_data.doc_number)
            /\ user_data.location # <<>> =>
                  user_data.location \in document.locs

\* a valid run returned for a request whose document number holds a tab and
\* which names a location
C11_Witness ==
    /\ pc = "done"
    /\ is_valid
    /\ returned # <<>>
    /\ \E i \in 1..Len(extract_user_data(user_request).doc_number) :
          extract_user_data(user_request).doc_number[i] = "TAB"
    /\ extract_user_data(user_request).location = <<"chiangmai">>

\* how many entries of the error list are of a kind
CountKind(errors, kind) ==
    Cardinality({i \in 1..Len(errors) : errors[i].kind = kind})

\* categories.py:64-67  content_patterns: the internal memo has two
\* alternatives, the other categories have none
ContentPatternsOf(cat) ==
    IF cat = INTERNAL THEN {"rueang_phuea_phicharana", "kho_thetching"} ELSE {}

Flag(b) == IF b THEN 1 ELSE 0

\* C12: the validator does not stop at the first failure: after a validation
\* the error list holds one entry for each check that fails on the draft (the
\* placeholders, each missing required section, the content-pattern group,
\* the document number, the location, the minimum length of 200) and no
\* other entry, and is_valid holds exactly when the list is empty.
C12_EveryFailingCheckReported ==
    Validated =>
        LET errors == IF is_valid THEN <<>> ELSE validation_errors
            user_data == extract_user_data(user_request)
            missing == {s \in Range(get_required_sections(ResolvedCategory)) :
                            ~InText(s, draft)}
            patterns == ContentPatternsOf(ResolvedCategory)
        IN  /\ validation_errors = errors
            /\ is_valid <=> (validation_errors = <<>>)
            /\ CountKind(errors, "Unreplaced placeholders")
                  = Flag(draft.ph # <<>>)
            /\ \A s \in missing :
                  \E i \in 1..Len(errors) :
                      errors[i] = Err("Missing required section", <<s>>)
            /\ CountKind(errors, "Missing required section")
                  = Cardinality(missing)
            /\ CountKind(errors, "Missing content section")
                  = Flag(patterns # {} /\ \A m \in patterns : ~InText(m, draft))
            /\ CountKind(errors, "User doc number not used")
                  = Flag(user_data.doc_number # <<>>
                         /\ RemoveSpaces(user_data.doc_number) \notin draft.docs)
            /\ CountKind(errors, "User location not used")
                  = Flag(user_data.location # <<>>
                         /\ user_data.location \notin draft.locs)
            /\ CountKind(errors, "Document too short") = Flag(draft.len < 200)
            /\ Len(errors)
                  = Flag(draft.ph # <<>>) + Cardinality(missing)
                    + CountKind(errors, "Missing content section")
                    + CountKind(errors, "User doc number not used")
                    + CountKind(errors, "User location not used")
                    + Flag(draft.len < 200)

\* a validated draft on which every check fails, several sections missing
C12_Witness ==
    /\ Validated
    /\ ~is_valid
    /\ CountKind(validation_errors, "Unreplaced placeholders") = 1
    /\ CountKind(validation_errors, "Missing required section") >= 2
    /\ CountKind(validation_errors, "Missing content section") = 1
    /\ CountKind(validation_errors, "User doc number not used") = 1
    /\ CountKind(validation_errors, "User location not used") = 1
    /\ CountKind(validation_errors, "Document too short") = 1

\* C13: validating the same draft, category and request a second time gives
\* the same error list and the same validity flag as the first time, though
\* the retry counter and the errors held in the state differ by then.
C13_RevalidationSameVerdict ==
    (prev # <<>> /\ Validated) =>
        /\ validation_errors = prev[1].validation_errors
        /\ is_valid = prev[1].is_valid

\* a second validation that failed again, on a state whose retry counter the
\* first one had raised and whose error list it had filled
C13_Witness ==
    /\ prev # <<>>
    /\ Validated
    /\ ~is_valid
    /\ Len(validation_errors) >= 2
    /\ retry_count = prev[1].retry_count + 1
    /\ prev[1].retry_count >= 1

\* C14: the classification is a function of the response text: a response
\* that names exactly one known category gives that category with confidence
\* 0.8, a response that names none gives the internal memo with confidence
\* 0.5.
C14_ClassificationByResponse ==
    [][(pc = "classify_llm" /\ pc' = "retrieve") =>
          LET named == Range(llm_result[1]) \cap CategoryNames
          IN  /\ Cardinality(named) = 1 =>
                    /\ named = {category'}
                    /\ auto_category' = category'
                    /\ classification_confidence' = 8
              /\ named = {} =>
                    /\ category' = INTERNAL
                    /\ auto_category' = INTERNAL
                    /\ classification_confidence' = 5]_vars

\* a request classified from a response (no category was given): the meeting
\* minutes are chosen only when the response names them alone
C14_Witness ==
    /\ pc = "retrieve"
    /\ arg_category = None
    /\ category = MEETING
    /\ auto_category = MEETING
    /\ classification_confidence = 8

\* a call of the completion client starts
CompletionCallStarts == llm_status = "idle" /\ llm_status' = "running"

\* C15: when the caller names the category, Classify hands it on unchanged
\* with confidence 1.0 and does not call the completion client; the run then
\* makes one completion call for each Generate invocation and none elsewhere.
C15_PreselectedCategoryCalls ==
    [][arg_category # None =>
          /\ pc = "classify" =>
                /\ pc' = "retrieve"
                /\ category' = arg_category
                /\ auto_category' = arg_category
                /\ classification_confidence' = 10
                /\ UNCHANGED llm_vars
          /\ CompletionCallStarts <=> (gen_count' = gen_count + 1)
          /\ CompletionCallStarts => (pc = "generate" /\ pc' = "generate_llm")
          /\ (pc = "generate_llm" /\ pc' # pc) => llm_status' = "idle"]_vars

\* a run with a named category that went through three Generates
C15_Witness ==
    /\ pc = "done"
    /\ arg_category # None
    /\ category = arg_category
    /\ classification_confidence = 10
    /\ gen_count = 3

\* the length of the context text Retrieve obtained (0 when it obtained none)
RetrievedLength ==
    IF \E i \in 1..Len(rag_examples) : rag_examples[i].src = "rag"
    THEN (CHOOSE e \in Range(rag_examples) : e.src = "rag").len
    ELSE 0

FallbackCount ==
    Cardinality({i \in 1..Len(rag_examples) : rag_examples[i].src = "fallback"})

\* C16: after Retrieve, a context text that is empty or shorter than 200
\* characters has exactly one fall-back example appended to the examples, a
\* context text of 200 characters or more has none, and the examples are
\* never empty (every category has a fall-back example).
C16_FallbackBelowThreshold ==
    pc = "generate" =>
        /\ RetrievedLength < 200 => FallbackCount = 1
        /\ RetrievedLength >= 200 => FallbackCount = 0
        /\ rag_examples # <<>>

\* task t comes out of get_rag with a handle in this step
GetRagReturns(t) ==
    /\ tasks'[t] # tasks[t]
    /\ tasks'[t].pc = "idle"
    /\ tasks'[t].last = "get_rag"

\* task t comes out of close_rag in this step
CloseRagReturns(t) ==
    /\ tasks'[t] # tasks[t]
    /\ tasks'[t].pc = "idle"
    /\ tasks'[t].last = "close_rag"

\* C17: the retrieval handle is initialise-once.  Between two completed
\* close_rag calls at most one handle is built and initialize_storages is
\* started at most once; as long as no close_rag was called every caller of
\* get_rag receives the one handle; when close_rag completes the singleton
\* is uninitialised, and a get_rag that finds it so builds a new handle and
\* starts its initialisation; close_rag on an uninitialised singleton changes
\* nothing.
C17_HandleInitialisedOnce ==
    /\ [](rag_book.epoch_built <= 1)
    /\ [](~rag_book.closing =>
             /\ Len(handles) <= 1
             /\ \A t \in Tasks :
                   tasks[t].ret # <<>> =>
                       (tasks[t].ret = <<1>> /\ rag_instance = 1))
    /\ [][\A t \in Tasks :
             /\ (GetRagReturns(t) /\ rag_instance # 0) =>
                     /\ tasks'[t].ret = <<rag_instance>>
                     /\ UNCHANGED <<rag_instance, rag_book>>
                     /\ Len(handles') = Len(handles)
             /\ (tasks[t].pc = "close_fin" /\ CloseRagReturns(t)) =>
                     rag_instance' = 0
             /\ (tasks[t].pc = "idle" /\ tasks'[t].pc = "get_init") =>
                     /\ rag_instance = 0
                     /\ handles' = Append(handles, NewHandle("running"))
                     /\ rag_instance' = Len(handles')
             /\ (tasks[t].pc = "idle" /\ rag_instance = 0
                    /\ tasks'[t] # tasks[t]) =>
                     \/ tasks'[t].pc = "get_init"
                     \/ /\ CloseRagReturns(t)
                        /\ UNCHANGED <<rag_instance, handles, rag_book>>]_vars

\* after a close_rag a second handle was built, and every caller of get_rag
\* received that one
C17_Witness ==
    /\ rag_instance = 2
    /\ handles[1].fin
    /\ handles[2].init = "done"
    /\ \A t \in Tasks : tasks[t].ret = <<2>>

\* the moves of the graph position the stage order allows: classify (with or
\* without its completion call), retrieve, generate and its completion call,
\* validate, then generate again or the end; a stage that raises aborts
StageEdges ==
    { <<"classify", "classify_llm">>, <<"classify", "retrieve">>,
      <<"classify_llm", "retrieve">>, <<"classify_llm", "aborted">>,
      <<"retrieve", "generate">>, <<"retrieve", "aborted">>,
      <<"generate", "generate_llm">>,
      <<"generate_llm", "validate">>, <<"generate_llm", "aborted">>,
      <<"validate", "generate">>, <<"validate", "end">>,
      <<"end", "done">> }

\* C18: the stages run one after the other in the order Classify, Retrieve,
\* Generate, Validate: Classify and Retrieve run once, before the first
\* Generate; each Generate is followed at once by exactly one Validate; no
\* stage starts while the completion call of the stage before is running.
C18_StagesInOrder ==
    /\ [][pc' # pc => <<pc, pc'>> \in StageEdges]_vars
    /\ [](pc \in {"classify", "classify_llm", "retrieve"} =>
             (gen_count = 0 /\ val_count = 0))
    /\ [](pc \in {"generate_llm", "validate"} => gen_count = val_count + 1)
    /\ [](pc \in {"generate", "end", "done"} => gen_count = val_count)
    /\ [](pc \in {"classify", "retrieve", "generate", "validate", "end", "done"}
             => llm_status = "idle")
    /\ [][val_count' # val_count =>
             (pc = "validate" /\ val_count' = val_count + 1
              /\ gen_count' = gen_count)]_vars
    /\ [][gen_count' # gen_count =>
             (pc = "generate" /\ gen_count' = gen_count + 1
              /\ val_count' = val_count)]_vars

\* the third Generate of an auto-classified run has ended and its Validate
\* is about to run
C18_Witness ==
    /\ pc = "validate"
    /\ arg_category = None
    /\ auto_category # None
    /\ rag_examples # <<>>
    /\ gen_count = 3
    /\ val_count = 2

\* C19: the template variant: the request variant is chosen whenever the
\* request holds a request phrase, a report phrase beside it or not; when it
\* holds neither a request nor a report phrase, the request variant is
\* chosen exactly when the generic seeking marker occurs in it.
C19_TemplateVariant ==
    (pc = "generate_llm" /\ prompt # <<>>) =>
        LET has_request == \E i \in 1..Len(user_request) :
                               user_request[i] \in RequestPhrases
            has_report == \E i \in 1..Len(user_request) :
                              user_request[i] \in ReportPhrases
            has_seeking == \E i \in 1..Len(user_request) :
                               user_request[i] \in SeekingWords
        IN  /\ has_request => prompt[1].use_request_template
            /\ (~has_request /\ ~has_report) =>
                  (prompt[1].use_request_template <=> has_seeking)

\* the prompt of a request that holds a request phrase and a report phrase
C19_Witness ==
    /\ pc = "generate_llm"
    /\ prompt # <<>>
    /\ \E i \in 1..Len(user_request) : user_request[i] \in RequestPhrases
    /\ \E i \in 1..Len(user_request) : user_request[i] \in ReportPhrases
    /\ prompt[1].use_request_template

\* Thai text that is no boundary word
ThaiWords == ThaiTokens \ BoundaryTokens

\* the first province marker of the request is at i and Thai text follows it
\* up to k, where a boundary word, whitespace or the end comes
ProvinceTextAt(req, i, k) ==
    /\ req[i] = "changwat"
    /\ \A h \in 1..(i - 1) : req[h] # "changwat"
    /\ k > i
    /\ \A j \in (i + 1)..k : req[j] \in ThaiWords
    /\ k = Len(req) \/ req[k + 1] \in BoundaryTokens \cup SpaceTokens

\* C20: the location stops at the first boundary: when the province marker
\* is followed by Thai text and then a boundary word, whitespace or the end
\* of the request, the extracted location is exactly the text in between;
\* when the request holds neither marker the location is null.
C20_LocationStopsAtBoundary ==
    (pc = "generate_llm" /\ prompt # <<>>) =>
        LET req == user_request
            location == prompt[1].user_data.location
        IN  /\ \A i \in 1..Len(req) : \A k \in 1..Len(req) :
                  ProvinceTextAt(req, i, k) => location = SubSeq(req, i + 1, k)
            /\ (\A i \in 1..Len(req) : req[i] \notin {"changwat", "phuenthi"})
                  => location = <<>>

\* the location of a request in the manner of the example: marker, province,
\* boundary word
C20_Witness ==
    /\ pc = "generate_llm"
    /\ prompt # <<>>
    /\ Len(user_request) >= 3
    /\ SubSeq(user_request, 1, 3) = <<"changwat", "chiangmai", "truat">>
    /\ prompt[1].user_data.location = <<"chiangmai">>

RetryableFailure(e) == e.timeout \/ (e.rate /\ e.limit) \/ e.trans

\* C21: an attempt failing with a timeout, a rate-limited or a transient error
\* while it is not the last allowed one makes one backoff sleep and leaves the
\* same call running with an attempt still to come, the pipeline where it
\* was; and that further attempt is then made.
C21_RetryableFailureThenNextAttempt ==
    /\ [][ (attempt' = attempt + 1 /\ caught' # <<>>
              /\ RetryableFailure(caught'[1]) /\ attempt < retries)
            => /\ n_sleeps' = n_sleeps + 1
               /\ llm_status' = "running"
               /\ llm_purpose' = llm_purpose
               /\ attempt' <= retries'
               /\ pc' = pc
               /\ error' = error
         ]_vars
    /\ \A k \in 1..MaxRetriesArg :
          (llm_status = "running" /\ caught # <<>> /\ RetryableFailure(caught[1])
              /\ n_calls = k /\ k <= retries)
            ~> (n_calls = k + 1)

\* C21 witness: a call whose first attempt timed out, slept once and made a
\* second attempt, which answered.
C21_Witness ==
    /\ llm_status = "returned"
    /\ last_error # <<>> /\ last_error[1].timeout
    /\ n_sleeps = 1 /\ n_calls = 2

\* C22: every Validate step leaves in validation_errors exactly the error
\* list of the draft it validated, empty when the draft passed, whatever the
\* list held before the step.
C22_ErrorsOfCurrentDraftOnly ==
    [][ val_count' = val_count + 1 =>
          /\ validation_errors' =
                ValidationErrors(draft, ResolvedCategory, user_request)
          /\ is_valid' => validation_errors' = <<>>
          /\ draft' = draft
      ]_vars

\* C22 witness: a second draft passed after the first had failed; the errors
\* of the first are gone.
C22_Witness ==
    /\ val_count = 2 /\ fail_count = 1 /\ retry_count = 1
    /\ is_valid /\ validation_errors = <<>>

\* C23: retry_count is the number of Validate steps of this run that failed,
\* it stays between 0 and 3, and a Validate step that passes leaves it as it
\* was.
C23_RetryCountCountsFailures ==
    /\ [](retry_count = fail_count /\ 0 <= retry_count /\ retry_count <= 3)
    /\ [][ (val_count' = val_count + 1 /\ is_valid')
              => retry_count' = retry_count ]_vars

\* C23 witness: two drafts failed, the third passed and the count stayed 2.
C23_Witness ==
    /\ val_count = 3 /\ is_valid /\ pass_count = 1 /\ retry_count = 2

\* C24: while is_valid holds, final_document is the current draft and
\* validation_errors is empty; final_document is non-empty only when is_valid
\* holds; and once is_valid holds no Generate and no Validate step is taken.
C24_ValidMeansFinal ==
    /\ [](is_valid => (final_document = draft /\ validation_errors = <<>>))
    /\ [](final_document # EmptyText => is_valid)
    /\ [][ is_valid => (gen_count' = gen_count /\ val_count' = val_count
                          /\ draft' = draft /\ is_valid') ]_vars

\* C24 witness: a run that ended with a draft accepted after one rejection.
C24_Witness ==
    /\ pc = "done" /\ is_valid /\ retry_count = 1
    /\ final_document = draft /\ final_document # EmptyText
    /\ returned = <<final_document>>

\* C25: a run that returns without any draft having passed validation made
\* exactly 3 Generate and 3 Validate invocations and holds retry_count = 3
\* and is_valid = FALSE; no run starts Generate a 4th time.
C25_AllFailingRunMakesThreeRounds ==
    /\ gen_count < 4
    /\ (pc \in {"end", "done"} /\ pass_count = 0) =>
          /\ gen_count = 3
          /\ val_count = 3
          /\ retry_count = 3
          /\ ~is_valid
          /\ final_document = EmptyText

\* C25 witness: three drafts generated and rejected, the last one returned.
C25_Witness ==
    /\ pc = "done" /\ pass_count = 0 /\ fail_count = 3
    /\ gen_count = 3 /\ val_count = 3
    /\ returned = <<draft>> /\ error = None

InGenerate == pc \in {"generate", "generate_llm"}

\* C26: a Generate step changes no state field but draft; once the first
\* Generate has started, the run never goes back to Classify or Retrieve and
\* the classification and the retrieved context stay as they are; and the
\* prompt of a retry is the prompt of the Generate before it, whatever the
\* validation in between reported.
C26_GenerateChangesOnlyDraft ==
    /\ [][ InGenerate =>
             /\ UNCHANGED <<user_request, category, auto_category,
                            classification_confidence, rag_examples, entities,
                            validation_errors, retry_count, is_valid,
                            final_document>>
             /\ draft' # draft => (pc = "generate_llm" /\ pc' = "validate")
         ]_vars
    /\ [][ gen_count >= 1 =>
             /\ pc' \notin {"classify", "classify_llm", "retrieve"}
             /\ llm_status' = "running" => llm_purpose' = "generate"
             /\ UNCHANGED <<category, auto_category, classification_confidence,
                            rag_examples, entities, rag_vars>>
         ]_vars
    /\ [][ (gen_count >= 1 /\ gen_count' = gen_count + 1) => prompt' = prompt
         ]_vars

\* C26 witness: the second Generate of a run has delivered its draft; the
\* errors and the count the first validation left are still in the state.
C26_Witness ==
    /\ pc = "validate" /\ gen_count = 2 /\ val_count = 1
    /\ retry_count = 1 /\ validation_errors # <<>> /\ ~is_valid
    /\ draft = last_generated[1]
    /\ rag_examples # <<>>
    /\ prompt # <<>>

\* C27: whatever the interleaving of concurrent get_rag and close_rag calls,
\* the handle a get_rag call returns has its initialize_storages completed
\* and no finalize_storages started on it.
C27_ReturnedHandleReady ==
    [][ \A t \in Tasks :
          (GetRagReturns(t) /\ tasks'[t].ret # <<>> /\ tasks'[t].ret[1] # 0) =>
              /\ handles'[tasks'[t].ret[1]].init = "done"
              /\ ~handles'[tasks'[t].ret[1]].fin
      ]_vars

GetRagRaises(t) ==
    /\ tasks[t].pc = "get_init"
    /\ tasks'[t].pc = "idle"
    /\ tasks'[t].last = "get_rag_raised"

FailedSingleton == rag_instance # 0 /\ handles[rag_instance].init = "failed"

\* C28: when initialize_storages raises inside get_rag the singleton keeps
\* the handle get_rag had built, now uninitialised; as long as the singleton
\* holds that handle every get_rag call made returns it and starts no
\* initialisation, the handle's initialisation never runs again, and only
\* a close_rag that completes empties the singleton.
C28_FailedInitNotRetried ==
    [][ /\ \A t \in Tasks :
              /\ GetRagRaises(t) =>
                    /\ rag_instance' = rag_instance
                    /\ handles'[tasks[t].h].init = "failed"
                    /\ rag_instance = tasks[t].h => FailedSingleton'
              /\ (FailedSingleton /\ tasks[t].pc = "idle" /\ GetRagReturns(t)) =>
                    /\ tasks'[t].ret = <<rag_instance>>
                    /\ UNCHANGED <<rag_instance, handles, rag_book>>
              /\ (FailedSingleton /\ tasks[t].pc = "idle") =>
                    tasks'[t].pc # "get_init"
        /\ \A h \in 1..Len(handles) :
              handles[h].init = "failed" => handles'[h].init = "failed"
        /\ (FailedSingleton /\ rag_instance' # rag_instance) =>
              /\ rag_instance' = 0
              /\ \E t \in Tasks : tasks[t].pc = "close_fin" /\ CloseRagReturns(t)
      ]_vars

\* C28 witness: one get_rag call raised out of initialize_storages, a later
\* one returned the handle that call had built.
C28_Witness ==
    /\ FailedSingleton
    /\ ~rag_book.closing
    /\ Len(handles) = 1
    /\ \E t, u \in Tasks :
          /\ tasks[t].last = "get_rag_raised"
          /\ tasks[u].last = "get_rag" /\ tasks[u].ret = <<rag_instance>>

PromptBuilt == pc = "generate_llm" /\ prompt # <<>>

\* C29: the prompt Generate builds holds at most one reference example, the
\* first element of the examples cut to 1500 characters: the retrieved
\* context whenever one was retrieved, also when the fall-back example was
\* appended after it, and the fall-back example only when no context was
\* retrieved.
C29_ReferenceIsFirstExample ==
    PromptBuilt =>
        LET ref == prompt[1].example
        IN  /\ Len(ref) <= 1
            /\ rag_examples # <<>> =>
                  /\ Len(ref) = 1
                  /\ ref[1].src = rag_examples[1].src
                  /\ ref[1].len = IF rag_examples[1].len <= 1500
                                  THEN rag_examples[1].len ELSE 1500
            /\ RetrievedLength > 0 =>
                  /\ ref[1].src = "rag"
                  /\ ref[1].len = IF RetrievedLength <= 1500
                                  THEN RetrievedLength ELSE 1500
            /\ (ref # <<>> /\ ref[1].src = "fallback") => RetrievedLength = 0

\* C29 witness: a short context was retrieved and the fall-back example
\* appended after it; the prompt's reference is the context.
C29_Witness ==
    /\ PromptBuilt
    /\ Len(rag_examples) = 2
    /\ rag_examples[1].src = "rag" /\ rag_examples[2].src = "fallback"
    /\ prompt[1].example = <<rag_examples[1]>>
    /\ rag_examples[1].len < 200

RECURSIVE TableIndex(_, _)
TableIndex(name, i) ==
    IF i > Len(CATEGORIES) THEN 0
    ELSE IF CATEGORIES[i] = name THEN i
    ELSE TableIndex(name, i + 1)

\* C30: when the classification response names more than one known category,
\* Classify takes the one that stands first in the category table (internal
\* memo, external letter, meeting minutes), wherever it occurs in the
\* response, with confidence 0.8.
C30_TableOrderDecides ==
    (pc = "retrieve" /\ classify_response # <<>>
        /\ Len(classify_response[1]) > 1) =>
        /\ category \in Range(classify_response[1])
        /\ \A k \in 1..Len(classify_response[1]) :
              TableIndex(category, 1) <= TableIndex(classify_response[1][k], 1)
        /\ auto_category = category
        /\ classification_confidence = 8

\* C30 witness: the response names the meeting minutes first and the
\* internal memo after them; the internal memo is chosen.
C30_Witness ==
    /\ pc = "retrieve"
    /\ classify_response = <<<<MEETING, INTERNAL>>>>
    /\ category = INTERNAL
    /\ classification_confidence = 8

============================================================================
